---- MODULE Spec2Model ----
(***************************************************************************)
(* Menu-item dialog of the navigation section of the dashboard:           *)
(* the selection-key decoder getMenuItemData, the option-tree search       *)
(* findMenuItem, the label resolver getDisplayValue and the MenuItemDialog *)
(* component that wires them to its two pieces of state (displayValue,     *)
(* url) and to the form data.                                              *)
(*                                                                         *)
(* A JavaScript string is a sequence of one-character strings, so that     *)
(* split/join and concatenation are computed and not assumed.             *)
(***************************************************************************)
EXTENDS Integers, Sequences, FiniteSets, TLC

VARIABLES
    initialDisplayValue, \* prop: string or undefined
    categories,          \* prop: list of {id, name}
    collections,         \* prop: list of {id, name}
    displayValue,        \* React state of MenuItemDialog
    url,                 \* React state of MenuItemDialog
    data,                \* fields of the Form: {id, name, type}
    pc,                  \* where the component is between/inside handlers
    closure,             \* what the running selection handler captured
    picked,              \* history: the leaf the user picked last
    query,               \* history: the query string the input delivered last
    upstream,            \* history: the onQueryChange calls of the last query change
    argMenu,             \* argument of a direct call of one of the functions
    argValue,            \* argument of a direct call of one of the functions
    ret                  \* what that call produced

vars == <<initialDisplayValue, categories, collections, displayValue, url,
          data, pc, closure, picked, query, upstream, argMenu, argValue, ret>>

compVars == <<initialDisplayValue, categories, collections, displayValue, url,
              data, pc, closure, picked, query, upstream>>

callVars == <<argMenu, argValue, ret>>

----------------------------------------------------------------------------
(* Bounds of the model *)

MaxIdLen == 3       \* longest id tried by a direct call of getMenuItemData
MaxChildren == 2    \* most leaves in one group of a directly supplied tree
MaxTree == 2        \* most top-level nodes of a directly supplied tree
MaxList == 2        \* longest categories / collections list

----------------------------------------------------------------------------
(* JavaScript values *)

\* `undefined` where a string may stand: a one-element sequence whose element
\* is no single character, hence different from every string.
Undefined == <<"undefined">>

\* `undefined` where a SelectMenuItem may stand.
undefinedItem == [undefined |-> TRUE]

Colon == ":"

category == <<"c", "a", "t", "e", "g", "o", "r", "y">>
collection == <<"c", "o", "l", "l", "e", "c", "t", "i", "o", "n">>
link == <<"l", "i", "n", "k">>
page == <<"p", "a", "g", "e">>

MenuItemType == {category, collection, link, page}

\* A label is a string or a rendered element (the <div> of the link leaf).
Text(s) == [kind |-> "text", text |-> s]
Element(u) == [kind |-> "element", url |-> u]

\* label.toString(): a string is itself, an object is "[object Object]".
ObjectObject == <<"[", "o", "b", "j", "e", "c", "t", " ",
                  "O", "b", "j", "e", "c", "t", "]">>
toString(label) == IF label.kind = "text" THEN label.text ELSE ObjectObject

\* String.prototype.split(":"): the segments between the separators; a string
\* without separator is its own single segment.
RECURSIVE split(_)
split(s) ==
    IF \A i \in 1..Len(s) : s[i] # Colon
    THEN <<s>>
    ELSE LET k == CHOOSE i \in 1..Len(s) :
                    s[i] = Colon /\ \A j \in 1..(i - 1) : s[j] # Colon
         IN <<SubSeq(s, 1, k - 1)>> \o split(SubSeq(s, k + 1, Len(s)))

\* Array.prototype.join(":")
RECURSIVE join(_)
join(parts) ==
    IF parts = <<>> THEN <<>>
    ELSE IF Len(parts) = 1 THEN parts[1]
    ELSE parts[1] \o <<Colon>> \o join(Tail(parts))

\* Variant: the last match instead of the first.
RECURSIVE findLast(_)
findLast(matches) ==
    IF matches = <<>> THEN undefinedItem
    ELSE IF matches[Len(matches)] # undefinedItem THEN matches[Len(matches)]
    ELSE findLast(SubSeq(matches, 1, Len(matches) - 1))

\* Array.prototype.find(match => match !== undefined)
RECURSIVE find(_)
find(matches) ==
    IF matches = <<>> THEN undefinedItem
    ELSE IF Head(matches) # undefinedItem THEN Head(matches)
    ELSE find(Tail(matches))

----------------------------------------------------------------------------
(* The three functions *)

\* Variant: the id is cut at its own first colon.
getMenuItemDataFirstPartOnly(value) ==
    LET parts == split(value)
    IN [id |-> IF Len(parts) > 1 THEN parts[2] ELSE <<>>, type |-> Head(parts)]

getMenuItemData(value) ==
    LET parts == split(value)
    IN [id |-> join(Tail(parts)), type |-> Head(parts)]

\* Variant: groups are not searched.
findMenuItemTopLevelOnly(menu, value) ==
    LET matches == [i \in 1..Len(menu) |->
                      IF "children" \in DOMAIN menu[i]
                      THEN undefinedItem
                      ELSE IF menu[i].value = value
                      THEN menu[i]
                      ELSE undefinedItem]
    IN find(matches)

RECURSIVE findMenuItem(_, _)
findMenuItem(menu, value) ==
    LET matches == [i \in 1..Len(menu) |->
                      IF "children" \in DOMAIN menu[i]
                      THEN findMenuItem(menu[i].children, value)
                      ELSE IF menu[i].value = value
                      THEN menu[i]
                      ELSE undefinedItem]
    IN find(matches)

\* The outcome of getDisplayValue: what it returned, or the TypeError of
\* reading .label of undefined; `searched` tells whether findMenuItem ran.
Returned(s, searched) == [threw |-> FALSE, value |-> s, searched |-> searched]
TypeError == [threw |-> TRUE, error |-> "TypeError", searched |-> TRUE]

\* Variant: no special case for links.
getDisplayValueAlwaysSearching(menu, value) ==
    LET item == findMenuItem(menu, value)
    IN IF item = undefinedItem
       THEN TypeError
       ELSE Returned(toString(item.label), TRUE)

getDisplayValue(menu, value) ==
    LET menuItemData == getMenuItemData(value)
    IN IF menuItemData.type = link
       THEN Returned(menuItemData.id, FALSE)
       ELSE LET item == findMenuItem(menu, value)
            IN IF item = undefinedItem
               THEN TypeError
               ELSE Returned(toString(item.label), TRUE)

----------------------------------------------------------------------------
\* isUrl of the imported is-url package, on character sequences: an optional
\* protocol (word characters, then a colon), then two slashes, then a
\* non-empty rest without whitespace; the rest starts with "localhost", or
\* it is a dot-free non-empty host, a dot and at least two more characters.

WordChars ==
    {"a", "b", "c", "d", "e", "f", "g", "h", "i", "j", "k", "l", "m",
     "n", "o", "p", "q", "r", "s", "t", "u", "v", "w", "x", "y", "z",
     "A", "B", "C", "D", "E", "F", "G", "H", "I", "J", "K", "L", "M",
     "N", "O", "P", "Q", "R", "S", "T", "U", "V", "W", "X", "Y", "Z",
     "0", "1", "2", "3", "4", "5", "6", "7", "8", "9", "_"}

Whitespace == {" "}

localhost == <<"l", "o", "c", "a", "l", "h", "o", "s", "t">>

NoSpace(s) == \A i \in 1..Len(s) : s[i] \notin Whitespace

localhostDomain(rest) ==
    /\ Len(rest) >= Len(localhost)
    /\ SubSeq(rest, 1, Len(localhost)) = localhost
    /\ NoSpace(rest)

nonLocalhostDomain(rest) ==
    \E k \in 2..Len(rest) :
        /\ rest[k] = "."
        /\ \A i \in 1..(k - 1) : rest[i] \notin (Whitespace \cup {"."})
        /\ Len(rest) - k >= 2
        /\ NoSpace(rest)

isUrl(string) ==
    \E p \in 1..(Len(string) - 1) :
        /\ \/ p = 1
           \/ /\ p >= 3
              /\ string[p - 1] = Colon
              /\ \A i \in 1..(p - 2) : string[i] \in WordChars
        /\ string[p] = "/"
        /\ string[p + 1] = "/"
        /\ LET everythingAfterProtocol == SubSeq(string, p + 2, Len(string))
           IN /\ Len(everythingAfterProtocol) >= 1
              /\ NoSpace(everythingAfterProtocol)
              /\ \/ localhostDomain(everythingAfterProtocol)
                 \/ nonLocalhostDomain(everythingAfterProtocol)

\* JavaScript truthiness of a string-or-undefined value
Truthy(s) == s # Undefined /\ s # <<>>

----------------------------------------------------------------------------
(* The option tree of one render *)

Digits == <<"1", "2", "3", "4", "5", "6", "7", "8", "9">>

\* i18n.t("Categories ({{ number }})", { number })
CategoriesLabel(number) ==
    <<"C", "a", "t", "e", "g", "o", "r", "i", "e", "s", " ", "(">>
        \o <<Digits[number]>> \o <<")">>

\* i18n.t("Collections ({{ number }})", { number })
CollectionsLabel(number) ==
    <<"C", "o", "l", "l", "e", "c", "t", "i", "o", "n", "s", " ", "(">>
        \o <<Digits[number]>> \o <<")">>

categoryGroup(cats) ==
    [children |-> [i \in 1..Len(cats) |->
                     [label |-> Text(cats[i].name),
                      value |-> category \o <<Colon>> \o cats[i].id]],
     label |-> Text(CategoriesLabel(Len(cats)))]

collectionGroup(colls) ==
    [children |-> [i \in 1..Len(colls) |->
                     [label |-> Text(colls[i].name),
                      value |-> collection \o <<Colon>> \o colls[i].id]],
     label |-> Text(CollectionsLabel(Len(colls)))]

linkLeaf(u) == [label |-> Element(u), value |-> link \o <<Colon>> \o u]

\* Variant: the link leaf is added to the groups instead of replacing them.
optionsLinkAppended(cats, colls, u) ==
    LET withCategories == IF Len(cats) > 0 THEN <<categoryGroup(cats)>> ELSE <<>>
        withCollections ==
            IF Len(colls) > 0
            THEN withCategories \o <<collectionGroup(colls)>>
            ELSE withCategories
    IN IF Truthy(u) THEN withCollections \o <<linkLeaf(u)>> ELSE withCollections

options(cats, colls, u) ==
    LET withCategories == IF Len(cats) > 0 THEN <<categoryGroup(cats)>> ELSE <<>>
        withCollections ==
            IF Len(colls) > 0
            THEN withCategories \o <<collectionGroup(colls)>>
            ELSE withCategories
    IN IF Truthy(u) THEN <<linkLeaf(u)>> ELSE withCollections

\* The leaves of a tree in the order the select menu lists them.
RECURSIVE Leaves(_)
Leaves(menu) ==
    IF menu = <<>> THEN <<>>
    ELSE (IF "children" \in DOMAIN Head(menu)
          THEN Leaves(Head(menu).children)
          ELSE <<Head(menu)>>) \o Leaves(Tail(menu))

Range(f) == {f[i] : i \in DOMAIN f}

----------------------------------------------------------------------------
(* What the environment supplies *)

Accessories == <<"A", "c", "c", "e", "s", "s", "o", "r", "i", "e", "s">>
Groceries == <<"G", "r", "o", "c", "e", "r", "i", "e", "s">>
Apparel == <<"A", "p", "p", "a", "r", "e", "l">>
Summer == <<"S", "u", "m", "m", "e", "r">>
Winter == <<"W", "i", "n", "t", "e", "r">>

\* Search results: categories and collections may carry the same id.
CategoryPool ==
    {[id |-> <<"7">>, name |-> Accessories],
     [id |-> <<"8">>, name |-> Groceries],
     [id |-> <<"9">>, name |-> Apparel]}

CollectionPool ==
    {[id |-> <<"7">>, name |-> Summer],
     [id |-> <<"4", "2">>, name |-> Winter]}

\* Lists of distinct entities, at most n long.
Lists(pool, n) ==
    UNION {{l \in [1..k -> pool] : \A i, j \in 1..k : l[i] = l[j] => i = j}
           : k \in 0..n}

\* What the user may type: two URLs, a word, a host without top-level part
\* and the empty input.
QueryPool ==
    {<<>>,
     <<"a", "c">>,
     <<"h", ":", "/", "/", "a", ".", "b">>,
     <<"h", ":", "/", "/", "a", ".", "b", "c">>,
     <<"/", "/", "b", ".", "c", "d", ":", "8">>}

InitialDisplayValuePool == {Undefined, <<>>, Groceries}

defaultInitial == [id |-> <<>>, name |-> <<>>, type |-> category]

\* The `initial` prop: absent, or the item being edited.
undefinedInitial == [undefined |-> TRUE]

InitialPool ==
    {undefinedInitial, [id |-> <<"8">>, name |-> <<"F", "o", "o", "d">>, type |-> category]}

NoClosure == [running |-> FALSE]
NoPick == [picked |-> FALSE]
NoCall == [op |-> "none"]

----------------------------------------------------------------------------
(* The component *)

\* Form's change(event, cb): the field named by the event takes its value;
\* cb runs once that is committed (the next step of the handler chain).
change(fields, name, value) == [fields EXCEPT ![name] = value]

Init ==
    /\ initialDisplayValue \in InitialDisplayValuePool
    /\ categories = <<>>
    /\ collections = <<>>
    /\ displayValue = (IF Truthy(initialDisplayValue) THEN initialDisplayValue ELSE <<>>)
    /\ url = Undefined
    /\ \E initial \in InitialPool :
          data = (IF initial # undefinedInitial THEN initial ELSE defaultInitial)
    /\ pc = "effect"
    /\ closure = NoClosure
    /\ picked = NoPick
    /\ query = Undefined
    /\ upstream = <<>>
    /\ argMenu = <<>>
    /\ argValue = <<>>
    /\ ret = NoCall

\* React.useEffect(() => setDisplayValue(initialDisplayValue), [initialDisplayValue])
refreshDisplayValue ==
    /\ pc = "effect"
    /\ displayValue' = initialDisplayValue
    /\ pc' = "idle"
    /\ picked' = NoPick
    /\ UNCHANGED <<initialDisplayValue, categories, collections, url, data,
                   closure, query, upstream, callVars>>

\* The parent renders the dialog with another initialDisplayValue.
receiveInitialDisplayValue ==
    /\ pc = "idle"
    /\ \E v \in InitialDisplayValuePool \ {initialDisplayValue} :
          initialDisplayValue' = v
    /\ pc' = "effect"
    /\ UNCHANGED <<categories, collections, displayValue, url, data, closure,
                   picked, query, upstream, callVars>>

\* The parent renders the dialog with other search results.
receiveSearchResults ==
    /\ pc = "idle"
    /\ categories' \in Lists(CategoryPool, MaxList)
    /\ collections' \in Lists(CollectionPool, MaxList)
    /\ <<categories', collections'>> # <<categories, collections>>
    /\ UNCHANGED <<initialDisplayValue, displayValue, url, data, pc, closure,
                   picked, query, upstream, callVars>>

\* Variant: a detected URL is never cleared.
handleQueryChangeKeepUrl(q) ==
    /\ pc = "idle"
    /\ url' = (IF isUrl(q) THEN q ELSE url)
    /\ upstream' = <<q>>
    /\ query' = q
    /\ UNCHANGED <<initialDisplayValue, categories, collections, displayValue,
                   data, pc, closure, picked, callVars>>

handleQueryChange(q) ==
    /\ pc = "idle"
    /\ url' = (IF isUrl(q) THEN q ELSE IF Truthy(url) THEN Undefined ELSE url)
    /\ upstream' = <<q>>
    /\ query' = q
    /\ UNCHANGED <<initialDisplayValue, categories, collections, displayValue,
                   data, pc, closure, picked, callVars>>

\* handleSelectChange up to its first change(): the id.
handleSelectChange(leaf) ==
    /\ pc = "idle"
    /\ LET value == leaf.value
           menuItemData == getMenuItemData(value)
       IN /\ data' = change(data, "id", menuItemData.id)
          /\ closure' = [running |-> TRUE,
                         value |-> value,
                         menuItemData |-> menuItemData,
                         options |-> options(categories, collections, url)]
    /\ picked' = [picked |-> TRUE, value |-> leaf.value, label |-> leaf.label]
    /\ pc' = "idChanged"
    /\ UNCHANGED <<initialDisplayValue, categories, collections, displayValue,
                   url, query, upstream, callVars>>

\* Variant: the type is not written.
changeTypeSkipped ==
    /\ pc = "idChanged"
    /\ pc' = "typeChanged"
    /\ UNCHANGED <<initialDisplayValue, categories, collections, displayValue,
                   url, data, closure, picked, query, upstream, callVars>>

\* The callback of the first change(): the type.
changeType ==
    /\ pc = "idChanged"
    /\ data' = change(data, "type", closure.menuItemData.type)
    /\ pc' = "typeChanged"
    /\ UNCHANGED <<initialDisplayValue, categories, collections, displayValue,
                   url, closure, picked, query, upstream, callVars>>

\* Variant: the id is shown instead of the label.
changeDisplayValueToId ==
    /\ pc = "typeChanged"
    /\ displayValue' = closure.menuItemData.id
    /\ closure' = NoClosure
    /\ pc' = "idle"
    /\ UNCHANGED <<initialDisplayValue, categories, collections, url, data,
                   picked, query, upstream, callVars>>

\* The callback of the second change(): the label.
changeDisplayValue ==
    /\ pc = "typeChanged"
    /\ LET got == getDisplayValue(closure.options, closure.value)
       IN displayValue' = (IF got.threw THEN displayValue ELSE got.value)
    /\ closure' = NoClosure
    /\ pc' = "idle"
    /\ UNCHANGED <<initialDisplayValue, categories, collections, url, data,
                   picked, query, upstream, callVars>>

Next ==
    \/ refreshDisplayValue
    \/ receiveInitialDisplayValue
    \/ receiveSearchResults
    \/ \E q \in QueryPool : handleQueryChange(q)
    \/ \E leaf \in Range(Leaves(options(categories, collections, url))) :
          handleSelectChange(leaf)
    \/ changeType
    \/ changeDisplayValue

Spec == Init /\ [][Next]_vars

----------------------------------------------------------------------------
(* Direct calls of the three functions, on inputs drawn from bounded sets *)

IdChars == {"7", Colon, "/"}

Strings(chars, n) == UNION {[1..k -> chars] : k \in 0..n}

Ids == Strings(IdChars, MaxIdLen)

Key(type, id) == type \o <<Colon>> \o id

Keys == {Key(type, id) : type \in MenuItemType, id \in Ids}

\* Two leaves share a value and differ in their label.
LeafPool ==
    {[label |-> Text(Accessories), value |-> Key(category, <<"7">>)],
     [label |-> Text(Apparel), value |-> Key(category, <<"7">>)],
     [label |-> Text(Summer), value |-> Key(collection, <<"7">>)]}

Categories == <<"C", "a", "t", "e", "g", "o", "r", "i", "e", "s">>

Groups == {[children |-> c, label |-> Text(Categories)]
           : c \in Strings(LeafPool, MaxChildren)}

Trees == Strings(Groups \cup LeafPool, MaxTree)

exampleUrl == <<"h", "t", "t", "p", "s", ":", "/", "/", "a", ".", "b", "/", "c">>

TreeKeys ==
    {Key(category, <<"7">>), Key(collection, <<"7">>),
     Key(category, <<"8">>), Key(page, <<"7">>),
     Key(link, exampleUrl)}

InitCalls ==
    /\ initialDisplayValue = Undefined
    /\ categories = <<>>
    /\ collections = <<>>
    /\ displayValue = <<>>
    /\ url = Undefined
    /\ data = defaultInitial
    /\ pc = "unmounted"
    /\ closure = NoClosure
    /\ picked = NoPick
    /\ query = Undefined
    /\ upstream = <<>>
    /\ \/ argMenu = <<>> /\ argValue \in Keys
       \/ argMenu \in Trees /\ argValue \in TreeKeys
    /\ ret = NoCall

callGetMenuItemData ==
    /\ ret = NoCall
    /\ ret' = [op |-> "getMenuItemData", out |-> getMenuItemData(argValue)]
    /\ UNCHANGED <<compVars, argMenu, argValue>>

callFindMenuItem ==
    /\ ret = NoCall
    /\ ret' = [op |-> "findMenuItem", out |-> findMenuItem(argMenu, argValue)]
    /\ UNCHANGED <<compVars, argMenu, argValue>>

callGetDisplayValue ==
    /\ ret = NoCall
    /\ ret' = [op |-> "getDisplayValue", out |-> getDisplayValue(argMenu, argValue)]
    /\ UNCHANGED <<compVars, argMenu, argValue>>

NextCalls ==
    \/ callGetMenuItemData
    \/ callFindMenuItem
    \/ callGetDisplayValue

SpecCalls == InitCalls /\ [][NextCalls]_vars

----------------------------------------------------------------------------
(* What the claims speak of, stated without the functions under test *)

FirstColon(v) == CHOOSE i \in 1..Len(v) : v[i] = Colon /\ \A j \in 1..(i - 1) : v[j] # Colon
KeyType(v) == SubSeq(v, 1, FirstColon(v) - 1)
KeyId(v) == SubSeq(v, FirstColon(v) + 1, Len(v))

\* The leaves of menu that carry value v, in depth-first order.
Matching(menu, v) == SelectSeq(Leaves(menu), LAMBDA leaf : leaf.value = v)

----------------------------------------------------------------------------
(* Claims about the three functions, checked under SpecCalls *)

\* C1: for every type of MenuItemType and every id, colons included,
\* getMenuItemData(type + ":" + id) is exactly {type, id}: the key is split
\* at its first colon only.
C1_RoundTrip ==
    ret.op = "getMenuItemData" =>
        \A type \in MenuItemType, id \in Ids :
            argValue = Key(type, id) => ret.out = [id |-> id, type |-> type]

\* C1 witness: the function has decoded a link key whose id holds a colon.
C1_Witness ==
    /\ ret.op = "getMenuItemData"
    /\ argValue = Key(link, <<"7", Colon, "/">>)
    /\ ret.out.id = <<"7", Colon, "/">>

\* C2: findMenuItem returns undefined exactly when no leaf of the tree has
\* the value; otherwise it returns the first such leaf in depth-first order,
\* a group's children before the group's later siblings.
C2_FindFirstLeaf ==
    ret.op = "findMenuItem" =>
        /\ (ret.out = undefinedItem) <=> (Matching(argMenu, argValue) = <<>>)
        /\ Matching(argMenu, argValue) # <<>> =>
               ret.out = Head(Matching(argMenu, argValue))

\* C2 witness: the value sits on two leaves with different labels, the first
\* inside a group and the second a later sibling of that group.
C2_Witness ==
    /\ ret.op = "findMenuItem"
    /\ Len(argMenu) = 2
    /\ "children" \in DOMAIN argMenu[1]
    /\ "children" \notin DOMAIN argMenu[2]
    /\ Len(Matching(argMenu, argValue)) = 2
    /\ ret.out.label = Text(Apparel)
    /\ argMenu[2].label = Text(Accessories)

\* C3: for a key "link:<url>" getDisplayValue returns <url> unchanged and
\* searches no tree, whatever the tree holds.
C3_LinkIsRawUrl ==
    (ret.op = "getDisplayValue" /\ KeyType(argValue) = link) =>
        ret.out = Returned(KeyId(argValue), FALSE)

\* C3 witness: a link key was resolved against the empty tree.
C3_Witness ==
    /\ ret.op = "getDisplayValue"
    /\ argValue = Key(link, exampleUrl)
    /\ argMenu = <<>>
    /\ ret.out.value = exampleUrl

\* C4: for a category or collection key that is the value of some leaf,
\* getDisplayValue returns the label of the first matching leaf as a string,
\* and not the id part of the key.
C4_LabelOfFirstMatch ==
    (/\ ret.op = "getDisplayValue"
     /\ KeyType(argValue) \in {category, collection}
     /\ Matching(argMenu, argValue) # <<>>) =>
        /\ ~ret.out.threw
        /\ ret.out.value = Head(Matching(argMenu, argValue)).label.text
        /\ ret.out.value # KeyId(argValue)

\* C4 witness: the tree is one group holding the leaf Accessories with value
\* "category:7", and "category:7" was resolved to "Accessories".
C4_Witness ==
    /\ ret.op = "getDisplayValue"
    /\ argValue = Key(category, <<"7">>)
    /\ argMenu = <<[children |-> <<[label |-> Text(Accessories),
                                   value |-> Key(category, <<"7">>)]>>,
                   label |-> Text(Categories)]>>
    /\ ret.out.value = Accessories

\* C8: for a category, collection or page key that no leaf of the tree
\* carries, getDisplayValue ends in an explicit lookup failure: neither the
\* TypeError of reading a property of the missing search result nor a
\* returned label.
C8_ExplicitLookupFailure ==
    (/\ ret.op = "getDisplayValue"
     /\ KeyType(argValue) \in {category, collection, page}
     /\ Matching(argMenu, argValue) = <<>>) =>
        /\ ret.out # TypeError
        /\ ret.out.threw

----------------------------------------------------------------------------
(* Claims about the component, checked under Spec *)

CategoryKeys == [i \in 1..Len(categories) |-> Key(category, categories[i].id)]
CollectionKeys == [i \in 1..Len(collections) |-> Key(collection, collections[i].id)]
Values(leaves) == [i \in 1..Len(leaves) |-> leaves[i].value]
IsGroup(node) == "children" \in DOMAIN node

\* C5: with a URL detected the option tree of the render is the one leaf
\* "link:" + url and no group, whatever the lists hold; without one it holds
\* one group per non-empty list, categories first, and none for an empty list.
C5_OptionTree ==
    LET tree == options(categories, collections, url)
    IN /\ url # Undefined =>
              /\ Len(tree) = 1
              /\ ~IsGroup(tree[1])
              /\ tree[1].value = Key(link, url)
       /\ url = Undefined =>
              /\ \A i \in 1..Len(tree) : IsGroup(tree[i]) /\ tree[i].children # <<>>
              /\ [i \in 1..Len(tree) |-> Values(tree[i].children)]
                     = (IF categories # <<>> THEN <<CategoryKeys>> ELSE <<>>)
                       \o (IF collections # <<>> THEN <<CollectionKeys>> ELSE <<>>)

\* C5 witness: a URL is detected while both lists are non-empty.
C5_Witness ==
    /\ url # Undefined
    /\ categories # <<>>
    /\ collections # <<>>
    /\ pc = "idle"

\* The display value the picked leaf stands for: the URL of a link leaf, the
\* label of any other.
C6_Expected ==
    IF KeyType(picked.value) = link
    THEN KeyId(picked.value)
    ELSE picked.label.text

\* One step, for the leaf "T:I": the selection sets id := I and nothing else;
\* the next step sets type := T; the last sets displayValue, with id and type
\* already in the form data.
C6_Step ==
    /\ (pc = "idle" /\ pc' = "idChanged") =>
           /\ data'.id = KeyId(picked'.value)
           /\ data'.type = data.type
           /\ displayValue' = displayValue
    /\ pc = "idChanged" =>
           /\ pc' = "typeChanged"
           /\ data'.id = KeyId(picked.value)
           /\ data'.type = KeyType(picked.value)
           /\ displayValue' = displayValue
    /\ pc = "typeChanged" =>
           /\ pc' = "idle"
           /\ data = data'
           /\ data'.id = KeyId(picked.value)
           /\ data'.type = KeyType(picked.value)
           /\ displayValue' = C6_Expected
           /\ picked' = picked

\* C6: every step of the component keeps the order id, then type, then
\* displayValue, and the chain ends with all three those of the picked leaf.
C6_ChainInOrder == [][C6_Step]_vars

\* C6 witness: "collection:42" was picked over a category selection; its id
\* and type are in the form data and the label is about to be set.
C6_Witness ==
    /\ pc = "typeChanged"
    /\ picked.value = Key(collection, <<"4", "2">>)
    /\ data.id = <<"4", "2">>
    /\ data.type = collection
    /\ displayValue # Winter

\* C7: the detected URL is the latest query when that query is a URL and is
\* unset otherwise, and the latest query change called onQueryChange once,
\* with the raw query.
C7_UrlFollowsQuery ==
    query # Undefined =>
        /\ url = (IF isUrl(query) THEN query ELSE Undefined)
        /\ upstream = <<query>>

\* C7 witness: a detected URL was cleared by a query that is no URL.
C7_Witness ==
    /\ query = <<"a", "c">>
    /\ url = Undefined
    /\ upstream = <<query>>
    /\ picked # NoPick
    /\ KeyType(picked.value) = link

C10_DisplayValueIsString == displayValue # Undefined

====
